---- MODULE Spec2Model ----
(***************************************************************************)
(* Model of cosmos/io.py: remote target resolution, destination path       *)
(* construction, the four artifact publishers (generic object storage,     *)
(* S3, GCS, Azure WASB) and the "show" list extraction / XCom log callback. *)
(*                                                                         *)
(* Strings are sequences of tokens.  "/" and ":" are tokens of their own;  *)
(* every other token is a non-empty run of characters holding neither.     *)
(* An f-string is the concatenation of its parts.                          *)
(***************************************************************************)
EXTENDS Integers, Sequences, FiniteSets, TLC

VARIABLES
    \* ---- cosmos.settings and the remote side
    settings,       \* [remote_target_path, remote_target_path_conn_id, AIRFLOW_IO_AVAILABLE]
    remote_dirs,    \* the remote directories that exist (ObjectStoragePath.exists / mkdir)
    store,          \* the remote object namespace: object URI -> content
    \* ---- _configure_remote_target_path called on its own
    resolved,       \* its outcome
    \* ---- _construct_dest_file_path called on its own
    build_in,       \* its arguments, for two execution contexts
    build_out,      \* the two keys it returned
    \* ---- the publishers: one callback invocation per process
    pub,            \* process -> the callback's arguments
    pc,             \* process -> "idle" | "uploading" | "done" | "failed"
    todo,           \* process -> the files still to upload, in traversal order
    sent,           \* process -> the files uploaded so far, in order
    err,            \* process -> the exception that left the callback ("" if none)
    written,        \* process -> the object URIs this process wrote (history)
    round,          \* process -> the number of publications started
    snapshot,       \* process -> the store when its first publication finished
    store0,         \* the store before any publication (history)
    locals,         \* process -> the callback's local variables
    \* ---- _extract_show_list called on its own
    log_string,     \* its argument
    extracted,      \* its outcome
    \* ---- log_to_xcom
    log_args,       \* [project_dir, log_relative_path, xcom_key]
    log_file,       \* the log file on disk: missing, unreadable or its text
    xcom,           \* the values pushed, in order
    log_pc,         \* "idle" | "done" | "failed"
    log_err,        \* the exception that left log_to_xcom
    log_content     \* the text handed to _extract_show_list (history)

vars == <<settings, remote_dirs, store, resolved, build_in, build_out, pub, pc, todo,
          sent, err, written, round, snapshot, store0, locals, log_string, extracted,
          log_args, log_file, xcom, log_pc, log_err, log_content>>

resolveVars == <<resolved>>
buildVars == <<build_in, build_out>>
pubVars == <<pub, pc, todo, sent, err, written, round, snapshot, store0, locals>>
extractVars == <<log_string, extracted>>
logVars == <<log_args, log_file, xcom, log_pc, log_err, log_content>>
remoteVars == <<settings, remote_dirs, store>>

(***************************************************************************)
(* Bounds                                                                  *)
(***************************************************************************)
MaxAttempt == 2
MaxTextLen == 5
MaxRounds == 2

(***************************************************************************)
(* Strings                                                                 *)
(***************************************************************************)
SEP == "/"
Slash == <<SEP>>

RECURSIVE rstrip(_)
\* str.rstrip("/")
rstrip(s) == IF Len(s) > 0 /\ s[Len(s)] = SEP THEN rstrip(SubSeq(s, 1, Len(s) - 1)) ELSE s

RECURSIVE lstrip(_)
\* str.lstrip("/")
lstrip(s) == IF Len(s) > 0 /\ s[1] = SEP THEN lstrip(Tail(s)) ELSE s

RECURSIVE JoinSegs(_)
\* the path text of a sequence of path segments: a/b/c
JoinSegs(segs) ==
    IF Len(segs) = 0 THEN <<>>
    ELSE IF Len(segs) = 1 THEN <<segs[1]>>
    ELSE <<segs[1], SEP>> \o JoinSegs(Tail(segs))

\* f"{n}" of an integer
FmtInt(n) == ToString(n)

\* Optional values: None, or a value
None == [some |-> FALSE, v |-> <<>>]
Some(x) == [some |-> TRUE, v |-> x]
Truthy(o) == o.some /\ o.v # <<>>

\* Exceptions
NoError == [type |-> "", msg |-> ""]
CapabilityUnavailable == [type |-> "CosmosValueError", msg |-> "Object Storage feature is unavailable"]
NotConfigured == [type |-> "CosmosValueError", msg |-> "remote target path is not configured"]
AttributeError == [type |-> "AttributeError", msg |-> "no such attribute"]
BackendError == [type |-> "BackendError", msg |-> "upload failed"]

(***************************************************************************)
(* _configure_remote_target_path                                           *)
(***************************************************************************)
\* cosmos.constants.FILE_SCHEME_AIRFLOW_DEFAULT_CONN_ID_MAP
SchemeTable == [s3 |-> <<"aws_default">>, gs |-> <<"google_cloud_default">>,
                abfs |-> <<"wasb_default">>]

\* dict.get(key, None)
TableGet(key) == IF key \in DOMAIN SchemeTable THEN Some(SchemeTable[key]) ELSE None

\* the tokens that can be a URI scheme, and their lower case
SchemeTokens == {"s3", "S3", "gs", "abfs", "store"}
Lower(t) == IF t = "S3" THEN "s3" ELSE t

\* urlparse(s).scheme: the text before the first ":", lower-cased, when it is a
\* scheme name; "" otherwise
urlparse_scheme(s) ==
    IF Len(s) >= 2 /\ s[2] = ":" /\ s[1] \in SchemeTokens THEN Lower(s[1]) ELSE ""

\* ObjectStoragePath(path, conn_id=...) and str() of it
ObjectStoragePath(path, conn) == [path |-> path, conn_id |-> conn]
StrOfPath(osp) == osp.path

Returned(path, conn, dirs) == [raise |-> NoError, path |-> path, conn_id |-> conn, dirs |-> dirs]
Raised(e, dirs) == [raise |-> e, path |-> None, conn_id |-> None, dirs |-> dirs]

\* exists() / mkdir(parents=True, exist_ok=True)
EnsureDir(dirs, path) == IF path \in dirs THEN dirs ELSE dirs \cup {path}

\* as ConfigureRemoteTargetPath, but the capability is checked before the
\* connection id is known to be resolved
ConfigureRemoteTargetPathCapabilityFirst(cfg, dirs) ==
    IF ~Truthy(cfg.remote_target_path) THEN Returned(None, None, dirs)
    ELSE LET target_path_str == cfg.remote_target_path.v
             given == cfg.remote_target_path_conn_id
             remote_conn_id == IF ~Truthy(given)
                               THEN TableGet(urlparse_scheme(target_path_str))
                               ELSE given
         IN  IF ~cfg.AIRFLOW_IO_AVAILABLE THEN Raised(CapabilityUnavailable, dirs)
             ELSE IF ~remote_conn_id.some THEN Returned(None, None, dirs)
             ELSE Returned(Some(ObjectStoragePath(target_path_str, remote_conn_id.v)),
                           remote_conn_id, EnsureDir(dirs, target_path_str))

ConfigureRemoteTargetPath(cfg, dirs) ==
    IF ~Truthy(cfg.remote_target_path) THEN Returned(None, None, dirs)
    ELSE LET target_path_str == cfg.remote_target_path.v
             given == cfg.remote_target_path_conn_id
             remote_conn_id == IF ~Truthy(given)
                               THEN TableGet(urlparse_scheme(target_path_str))
                               ELSE given
         IN  IF ~remote_conn_id.some THEN Returned(None, None, dirs)
             ELSE IF ~cfg.AIRFLOW_IO_AVAILABLE THEN Raised(CapabilityUnavailable, dirs)
             ELSE Returned(Some(ObjectStoragePath(target_path_str, remote_conn_id.v)),
                           remote_conn_id, EnsureDir(dirs, target_path_str))

(***************************************************************************)
(* Execution context                                                       *)
(***************************************************************************)
\* an attribute of the task instance: missing, or holding an integer
NoAttr == [has |-> FALSE, val |-> 0]
Attr(n) == [has |-> TRUE, val |-> n]

Attempts == 1..MaxAttempt

\* the task instance of the two Airflow releases: Airflow 3 has try_number only,
\* Airflow 2 has both (equal while the task runs), and a task instance whose
\* try_number is unset (0) while _try_number counts
TaskInstances(task) ==
    {[task_id |-> task, try_number |-> Attr(n), _try_number |-> NoAttr] : n \in Attempts}
    \cup {[task_id |-> task, try_number |-> Attr(n), _try_number |-> Attr(n)] : n \in Attempts}
    \cup {[task_id |-> task, try_number |-> Attr(0), _try_number |-> Attr(n)] : n \in Attempts}

\* the task instances whose try_number is set
RunningTaskInstances(task) == {ti \in TaskInstances(task) : ti.try_number.val > 0}

Context(dag, run, ti) == [dag_id |-> dag, run_id |-> run, task_instance |-> ti]

\* f"{dag_id}/{run_id}/{task_id}/{n}"
TaskRunIdentifier(context, n) ==
    <<context.dag_id, SEP, context.run_id, SEP, context.task_instance.task_id, SEP, FmtInt(n)>>

(***************************************************************************)
(* Local paths                                                             *)
(***************************************************************************)
\* the path segments of a path text
Segments(s) == SelectSeq(s, LAMBDA t : t # SEP)

\* str(Path(s)): separators collapsed, no trailing separator
PurePath(s) == (IF Len(s) > 0 /\ s[1] = SEP THEN Slash ELSE <<>>) \o JoinSegs(Segments(s))

\* Path(a) / b
PathJoin(a, b) == PurePath(a \o Slash \o b)

\* os.path.join(a, b) for a relative b
OsJoin(a, b) == IF Len(a) = 0 \/ a[Len(a)] = SEP THEN a \o b ELSE a \o Slash \o b

IsPrefix(a, s) == Len(a) <= Len(s) /\ SubSeq(s, 1, Len(a)) = a

RECURSIVE Norm(_, _)
\* os.path.normpath on the segments of an absolute path: "x/.." cancels
Norm(segs, acc) ==
    IF Len(segs) = 0 THEN acc
    ELSE IF Head(segs) = ".."
         THEN Norm(Tail(segs), IF Len(acc) = 0 THEN acc ELSE SubSeq(acc, 1, Len(acc) - 1))
         ELSE Norm(Tail(segs), Append(acc, Head(segs)))

\* os.path.relpath(path, start) for a path at or below start
relpath(path, start) ==
    LET p == Norm(Segments(path), <<>>)
        q == Norm(Segments(start), <<>>)
    IN  IF Len(p) = Len(q) THEN <<".">> ELSE JoinSegs(SubSeq(p, Len(q) + 1, Len(p)))

RECURSIVE SplitLast(_, _)
\* s.split(sep)[-1] for a non-empty sep: what follows the last of the
\* occurrences of sep found scanning left to right
SplitLast(s, sep) ==
    LET hits == {i \in 1..(Len(s) - Len(sep) + 1) : SubSeq(s, i, i + Len(sep) - 1) = sep}
    IN  IF hits = {} THEN s
        ELSE LET i == CHOOSE h \in hits : \A g \in hits : h <= g
             IN  SplitLast(SubSeq(s, i + Len(sep), Len(s)), sep)

(***************************************************************************)
(* _construct_dest_file_path                                               *)
(***************************************************************************)
\* as ConstructDestFilePath, but the try number is left out of the identifier
ConstructDestFilePathNoAttempt(dest_target_dir, file_path, source_target_dir, source_subpath, context) ==
    LET dest_target_dir_str == rstrip(StrOfPath(dest_target_dir))
        task_run_identifier ==
            <<context.dag_id, SEP, context.run_id, SEP, context.task_instance.task_id>>
        rel_path == lstrip(relpath(file_path, source_target_dir))
    IN  dest_target_dir_str \o Slash \o task_run_identifier \o Slash
            \o source_subpath \o Slash \o rel_path

ConstructDestFilePath(dest_target_dir, file_path, source_target_dir, source_subpath, context) ==
    LET dest_target_dir_str == rstrip(StrOfPath(dest_target_dir))
        task_run_identifier ==
            TaskRunIdentifier(context, context.task_instance.try_number.val)
        rel_path == lstrip(relpath(file_path, source_target_dir))
    IN  dest_target_dir_str \o Slash \o task_run_identifier \o Slash
            \o source_subpath \o Slash \o rel_path

(***************************************************************************)
(* Inputs                                                                  *)
(***************************************************************************)
\* values of settings.remote_target_path
RootTexts == { <<>>,
               <<"s3", ":", SEP, SEP, "bucket">>,
               <<"S3", ":", SEP, SEP, "bucket">>,
               <<"gs", ":", SEP, SEP, "bucket", SEP>>,
               <<"store", ":", SEP, SEP, "bucket">>,
               <<SEP, "mnt", SEP, "artifacts", SEP, SEP>> }
Roots == {None} \cup {Some(r) : r \in RootTexts}

\* values of settings.remote_target_path_conn_id
ConnIds == {None, Some(<<>>), Some(<<"my_conn">>)}

Settings == [remote_target_path : Roots, remote_target_path_conn_id : ConnIds,
             AIRFLOW_IO_AVAILABLE : BOOLEAN]

DefaultSettings == [remote_target_path |-> None, remote_target_path_conn_id |-> None,
                    AIRFLOW_IO_AVAILABLE |-> TRUE]

\* project directories, source sub-paths and files below the output root
ProjectDirs == { <<SEP, "p">>, <<SEP, "tmp", SEP, "p">> }
SubPaths == { <<"target">>, <<"target", SEP, "docs">> }
RelFiles == { <<"run", "results.json">>, <<"compiled", "q.sql">>, <<"q.sql">> }

(***************************************************************************)
(* Initial values of the parts a specification does not use                *)
(***************************************************************************)
Procs == {1, 2}

ResolveIdle == [called |-> FALSE, raise |-> NoError, path |-> None, conn_id |-> None,
                dirs_before |-> {}]
BuildIdle == [called |-> FALSE, key1 |-> <<>>, key2 |-> <<>>]
NoPub == [variant |-> "off"]
EmptyStore == [k \in {} |-> ""]
NoLocals == [dest_target_dir |-> ObjectStoragePath(<<>>, <<>>), dest_conn_id |-> <<>>,
             try_number |-> 0]

InitResolveOff == resolved = ResolveIdle
InitBuildOff == build_in = <<>> /\ build_out = BuildIdle
InitRemoteOff == settings = DefaultSettings /\ remote_dirs = {} /\ store = EmptyStore
InitPubOff ==
    /\ pub = [p \in Procs |-> NoPub]
    /\ pc = [p \in Procs |-> "off"]
    /\ todo = [p \in Procs |-> <<>>]
    /\ sent = [p \in Procs |-> <<>>]
    /\ err = [p \in Procs |-> NoError]
    /\ written = [p \in Procs |-> {}]
    /\ round = [p \in Procs |-> 0]
    /\ snapshot = [p \in Procs |-> EmptyStore]
    /\ store0 = EmptyStore
    /\ locals = [p \in Procs |-> NoLocals]
InitExtractOff == log_string = <<>> /\ extracted = [called |-> FALSE]
InitLogOff ==
    /\ log_args = [project_dir |-> <<>>, log_relative_path |-> <<>>, xcom_key |-> ""]
    /\ log_file = [state |-> "missing", text |-> <<>>]
    /\ xcom = <<>>
    /\ log_pc = "off"
    /\ log_err = NoError
    /\ log_content = <<>>

(***************************************************************************)
(* _configure_remote_target_path on its own                                *)
(***************************************************************************)
InitResolve ==
    /\ settings \in Settings
    /\ remote_dirs \in SUBSET {r \in RootTexts : Len(r) > 0 /\ r[1] \in {"s3", "store"}}
    /\ store = EmptyStore
    /\ resolved = ResolveIdle
    /\ InitBuildOff /\ InitPubOff /\ InitExtractOff /\ InitLogOff

Resolve ==
    /\ ~resolved.called
    /\ LET r == ConfigureRemoteTargetPath(settings, remote_dirs)
       IN  /\ resolved' = [called |-> TRUE, raise |-> r.raise, path |-> r.path,
                           conn_id |-> r.conn_id, dirs_before |-> remote_dirs]
           /\ remote_dirs' = r.dirs
    /\ UNCHANGED <<settings, store, buildVars, pubVars, extractVars, logVars>>

SpecResolve == InitResolve /\ [][Resolve]_vars

(***************************************************************************)
(* _construct_dest_file_path on its own, for two execution contexts        *)
(***************************************************************************)
BuildContexts ==
    {Context(d, "r1", ti) : d \in {"d1", "d2"}, ti \in RunningTaskInstances("t1")}

BuildInputs ==
    [root : {r \in RootTexts : r # <<>>}, project_dir : {<<SEP, "p">>},
     sub1 : SubPaths, sub2 : SubPaths, ctx1 : BuildContexts, ctx2 : BuildContexts,
     rel1 : RelFiles, rel2 : RelFiles]

InitBuild ==
    /\ build_in \in BuildInputs
    /\ build_out = BuildIdle
    /\ InitRemoteOff /\ InitResolveOff /\ InitPubOff /\ InitExtractOff /\ InitLogOff

\* the call upload_to_cloud_storage makes for the file rel below project_dir/sub
BuildFor(root, project_dir, sub, ctx, rel) ==
    LET source_target_dir == PathJoin(project_dir, sub)
        file_path == source_target_dir \o Slash \o JoinSegs(rel)
    IN  ConstructDestFilePath(ObjectStoragePath(root, <<"my_conn">>), file_path,
                              source_target_dir, sub, ctx)

Build ==
    /\ ~build_out.called
    /\ build_out' =
         [called |-> TRUE,
          key1 |-> BuildFor(build_in.root, build_in.project_dir, build_in.sub1,
                            build_in.ctx1, build_in.rel1),
          key2 |-> BuildFor(build_in.root, build_in.project_dir, build_in.sub2,
                            build_in.ctx2, build_in.rel2)]
    /\ UNCHANGED <<build_in, remoteVars, resolveVars, pubVars, extractVars, logVars>>

SpecBuild == InitBuild /\ [][Build]_vars

(***************************************************************************)
(* The local output tree                                                   *)
(***************************************************************************)
\* an entry below project_dir/source_subpath, by its path relative to it
File(rel, c) == [rel |-> rel, kind |-> "file", content |-> c]
Dir(rel) == [rel |-> rel, kind |-> "dir", content |-> ""]

TreeEmpty == {}
TreeExample == { Dir(<<"run">>), File(<<"run", "results.json">>, "c1"),
                 Dir(<<"compiled">>), File(<<"compiled", "q.sql">>, "c2") }
\* a tree in which the text of the project directory /p occurs again
TreeNested == { Dir(<<"a">>), File(<<"a", "f">>, "c1"),
                Dir(<<"p">>), Dir(<<"p", "target">>), Dir(<<"p", "target", "a">>),
                File(<<"p", "target", "a", "f">>, "c2") }
Trees == {TreeEmpty, TreeExample, TreeNested}

is_file(e) == e.kind = "file"
FilesOf(tree) == {e \in tree : is_file(e)}
DirsOf(tree) == {e \in tree : ~is_file(e)}

Perms(S) == {q \in [1..Cardinality(S) -> S] : \A i, j \in DOMAIN q : q[i] = q[j] => i = j}

RECURSIVE SetToSeq(_)
SetToSeq(S) == IF S = {} THEN <<>>
               ELSE LET x == CHOOSE y \in S : TRUE IN <<x>> \o SetToSeq(S \ {x})

\* a tree together with the order in which the file system lists its files
Listings == UNION {{[tree |-> t, order |-> o] : o \in Perms(FilesOf(t))} : t \in Trees}

Parent(e) == SubSeq(e.rel, 1, Len(e.rel) - 1)
Name(e) == e.rel[Len(e.rel)]

RECURSIVE WalkDir(_, _)
\* the dirpath os.walk gives for the directory segs below top
WalkDir(top, segs) ==
    IF Len(segs) = 0 THEN top ELSE WalkDir(OsJoin(top, <<Head(segs)>>), Tail(segs))

\* source_target_dir.rglob("*"): files in listing order; the directories, which
\* the caller skips, are put last
Rglob(a) == a.order \o SetToSeq(DirsOf(a.tree))

\* os.walk(target_dir): the file names, in listing order
Walk(a) == a.order

(***************************************************************************)
(* The remote object namespace                                             *)
(***************************************************************************)
\* the object a named backend addresses by (bucket, key)
ObjectUri(scheme, bucket, key) == <<scheme, ":", SEP, SEP, bucket, SEP>> \o key

\* an upload that keeps an object already at uri and writes a copy beside it
PutVersioned(st, uri, c) ==
    LET at == IF uri \in DOMAIN st THEN uri \o <<".1">> ELSE uri
    IN  [k \in DOMAIN st \cup {at} |-> IF k = at THEN c ELSE st[k]]

\* an upload that replaces any object already at uri
Put(st, uri, c) == [k \in DOMAIN st \cup {uri} |-> IF k = uri THEN c ELSE st[k]]

Dest(uri) == [raise |-> NoError, uri |-> uri]
DestRaised(e) == [raise |-> e, uri |-> <<>>]
Started(files, loc, dirs) == [raise |-> NoError, files |-> files, locals |-> loc, dirs |-> dirs]
StartRaised(e, dirs) == [raise |-> e, files |-> <<>>, locals |-> NoLocals, dirs |-> dirs]

(***************************************************************************)
(* upload_to_aws_s3                                                        *)
(***************************************************************************)
\* getattr(ti, "try_number") or getattr(ti, "_try_number")
S3TryNumber(ti) ==
    IF ~ti.try_number.has THEN [raise |-> AttributeError, val |-> 0]
    ELSE IF ti.try_number.val # 0 THEN [raise |-> NoError, val |-> ti.try_number.val]
    ELSE IF ~ti._try_number.has THEN [raise |-> AttributeError, val |-> 0]
    ELSE [raise |-> NoError, val |-> ti._try_number.val]

S3Start(a, dirs) ==
    LET t == S3TryNumber(a.context.task_instance)
    IN  IF t.raise # NoError THEN StartRaised(t.raise, dirs)
        ELSE Started(Walk(a), [NoLocals EXCEPT !.try_number = t.val], dirs)

S3Dest(a, loc, e) ==
    LET target_dir == a.project_dir \o Slash \o a.source_subpath
        dirpath == WalkDir(target_dir, Parent(e))
        s3_key == TaskRunIdentifier(a.context, loc.try_number)
                    \o SplitLast(dirpath, a.project_dir) \o Slash \o <<Name(e)>>
    IN  Dest(ObjectUri("s3", a.bucket_name, s3_key))

(***************************************************************************)
(* upload_to_gcp_gs                                                        *)
(***************************************************************************)
GcsStart(a, dirs) == Started(Walk(a), NoLocals, dirs)

GcsDest(a, loc, e) ==
    LET target_dir == OsJoin(a.project_dir, a.source_subpath)
        root == WalkDir(target_dir, Parent(e))
        file_path == OsJoin(root, <<Name(e)>>)
        destination_file_path == relpath(file_path, OsJoin(a.project_dir, <<"..">>))
    IN  Dest(ObjectUri("gs", a.bucket_name, destination_file_path))

(***************************************************************************)
(* upload_to_azure_wasb                                                    *)
(***************************************************************************)
AzureStart(a, dirs) == Started(Walk(a), NoLocals, dirs)

AzureDest(a, loc, e) ==
    LET target_dir == a.project_dir \o Slash \o a.source_subpath
        dirpath == WalkDir(target_dir, Parent(e))
        ti == a.context.task_instance
    IN  IF ~ti._try_number.has THEN DestRaised(AttributeError)
        ELSE Dest(ObjectUri("wasb", a.bucket_name,
                            TaskRunIdentifier(a.context, ti._try_number.val)
                              \o SplitLast(dirpath, a.project_dir) \o Slash \o <<Name(e)>>))

(***************************************************************************)
(* upload_to_cloud_storage                                                 *)
(***************************************************************************)
\* as GenericFiles, without the is_file() test
GenericFilesAll(a) == Rglob(a)

\* [str(file) for file in source_target_dir.rglob("*") if file.is_file()]
GenericFiles(a) == SelectSeq(Rglob(a), is_file)

\* as GenericStart, but an unconfigured target is skipped silently
GenericStartSkips(a, cfg, dirs) ==
    LET r == ConfigureRemoteTargetPath(cfg, dirs)
    IN  IF r.raise # NoError THEN StartRaised(r.raise, dirs)
        ELSE IF ~r.path.some THEN Started(<<>>, NoLocals, r.dirs)
        ELSE Started(GenericFiles(a),
                     [NoLocals EXCEPT !.dest_target_dir = r.path.v,
                                      !.dest_conn_id = r.conn_id.v],
                     r.dirs)

GenericStart(a, cfg, dirs) ==
    LET r == ConfigureRemoteTargetPath(cfg, dirs)
    IN  IF r.raise # NoError THEN StartRaised(r.raise, dirs)
        ELSE IF ~r.path.some THEN StartRaised(NotConfigured, r.dirs)
        ELSE Started(GenericFiles(a),
                     [NoLocals EXCEPT !.dest_target_dir = r.path.v,
                                      !.dest_conn_id = r.conn_id.v],
                     r.dirs)

GenericDest(a, loc, e) ==
    LET source_target_dir == PathJoin(a.project_dir, a.source_subpath)
        file_path == source_target_dir \o Slash \o JoinSegs(e.rel)
    IN  IF ~a.context.task_instance.try_number.has THEN DestRaised(AttributeError)
        ELSE Dest(ConstructDestFilePath(loc.dest_target_dir, file_path, source_target_dir,
                                        a.source_subpath, a.context))

(***************************************************************************)
(* One callback invocation, file by file                                   *)
(***************************************************************************)
Variants == {"generic", "s3", "gcs", "azure"}

StartOutcome(a, cfg, dirs) ==
    CASE a.variant = "generic" -> GenericStart(a, cfg, dirs)
      [] a.variant = "s3" -> S3Start(a, dirs)
      [] a.variant = "gcs" -> GcsStart(a, dirs)
      [] a.variant = "azure" -> AzureStart(a, dirs)

DestOf(a, loc, e) ==
    CASE a.variant = "generic" -> GenericDest(a, loc, e)
      [] a.variant = "s3" -> S3Dest(a, loc, e)
      [] a.variant = "gcs" -> GcsDest(a, loc, e)
      [] a.variant = "azure" -> AzureDest(a, loc, e)

\* the callback is entered: what runs before the first file
Start(p) ==
    /\ pc[p] \in {"idle", "done"}
    /\ round[p] < pub[p].times
    /\ LET o == StartOutcome(pub[p], settings, remote_dirs)
           npc == IF o.raise # NoError THEN "failed"
                  ELSE IF o.files = <<>> THEN "done" ELSE "uploading"
       IN  /\ pc' = [pc EXCEPT ![p] = npc]
           /\ err' = [err EXCEPT ![p] = o.raise]
           /\ todo' = [todo EXCEPT ![p] = o.files]
           /\ locals' = [locals EXCEPT ![p] = o.locals]
           /\ remote_dirs' = o.dirs
           /\ snapshot' = IF npc = "done" /\ round[p] = 0
                          THEN [snapshot EXCEPT ![p] = store] ELSE snapshot
    /\ sent' = [sent EXCEPT ![p] = <<>>]
    /\ written' = [written EXCEPT ![p] = {}]
    /\ round' = [round EXCEPT ![p] = @ + 1]
    /\ UNCHANGED <<pub, store, store0, settings, resolveVars, buildVars, extractVars, logVars>>

\* one iteration of the loop over the files: the next file is uploaded
UploadOne(p) ==
    /\ pc[p] = "uploading"
    /\ LET e == Head(todo[p])
           d == DestOf(pub[p], locals[p], e)
           rest == Tail(todo[p])
           npc == IF rest = <<>> THEN "done" ELSE "uploading"
       IN  IF d.raise # NoError
           THEN /\ pc' = [pc EXCEPT ![p] = "failed"]
                /\ err' = [err EXCEPT ![p] = d.raise]
                /\ UNCHANGED <<store, todo, sent, written, snapshot>>
           ELSE /\ store' = Put(store, d.uri, e.content)
                /\ todo' = [todo EXCEPT ![p] = rest]
                /\ sent' = [sent EXCEPT ![p] = Append(@, e)]
                /\ written' = [written EXCEPT ![p] = @ \cup {d.uri}]
                /\ pc' = [pc EXCEPT ![p] = npc]
                /\ snapshot' = IF npc = "done" /\ round[p] = 1
                               THEN [snapshot EXCEPT ![p] = store'] ELSE snapshot
                /\ UNCHANGED err
    /\ UNCHANGED <<pub, round, store0, locals, settings, remote_dirs,
                   resolveVars, buildVars, extractVars, logVars>>

\* as UploadFail, but the objects uploaded so far are removed before the
\* failure leaves the callback
UploadFailRollback(p) ==
    /\ pc[p] = "uploading"
    /\ DestOf(pub[p], locals[p], Head(todo[p])).raise = NoError
    /\ pc' = [pc EXCEPT ![p] = "failed"]
    /\ err' = [err EXCEPT ![p] = BackendError]
    /\ store' = [k \in DOMAIN store \ written[p] |-> store[k]]
    /\ UNCHANGED <<pub, todo, sent, written, snapshot, round, store0, locals,
                   settings, remote_dirs, resolveVars, buildVars, extractVars, logVars>>

\* one iteration of the loop over the files: the backend's upload raises, and
\* nothing catches it
UploadFail(p) ==
    /\ pc[p] = "uploading"
    /\ DestOf(pub[p], locals[p], Head(todo[p])).raise = NoError
    /\ pc' = [pc EXCEPT ![p] = "failed"]
    /\ err' = [err EXCEPT ![p] = BackendError]
    /\ UNCHANGED <<pub, store, todo, sent, written, snapshot, round, store0, locals,
                   settings, remote_dirs, resolveVars, buildVars, extractVars, logVars>>

(***************************************************************************)
(* One publication at a time: any variant, any configuration, any initial  *)
(* store, published MaxRounds times over                                   *)
(***************************************************************************)
PubSettings ==
    {c \in Settings : c.remote_target_path.v = <<>> \/ c.remote_target_path.v[1] # "S3"}

Args(v, pd, sub, ctx, l, n) ==
    [variant |-> v, project_dir |-> pd, source_subpath |-> sub, bucket_name |-> "bucket",
     context |-> ctx, tree |-> l.tree, order |-> l.order, times |-> n]

\* the objects a publication with these arguments writes when nothing fails
PlannedUris(a, cfg) ==
    LET o == StartOutcome(a, cfg, {})
    IN  IF o.raise # NoError THEN {}
        ELSE {DestOf(a, o.locals, e).uri : e \in {f \in FilesOf(a.tree) :
                                                   DestOf(a, o.locals, f).raise = NoError}}

Unrelated == <<"s3", ":", SEP, SEP, "bucket", SEP, "other">>

\* remote stores a publication can find: empty, holding an unrelated object,
\* holding stale objects at the keys it is about to write
InitialStores(a, cfg) ==
    { EmptyStore,
      [k \in {Unrelated} |-> "old"],
      [k \in PlannedUris(a, cfg) \cup {Unrelated} |-> "old"] }

InitPub ==
    /\ \E v \in Variants, pd \in ProjectDirs, sub \in SubPaths,
          ti \in TaskInstances("t1"), l \in Listings :
         pub = [p \in Procs |-> IF p = 1
                                THEN Args(v, pd, sub, Context("d1", "r1", ti), l, MaxRounds)
                                ELSE NoPub]
    /\ settings \in (IF pub[1].variant = "generic" THEN PubSettings ELSE {DefaultSettings})
    /\ remote_dirs = {}
    /\ store \in InitialStores(pub[1], settings)
    /\ store0 = store
    /\ pc = [p \in Procs |-> IF p = 1 THEN "idle" ELSE "off"]
    /\ todo = [p \in Procs |-> <<>>]
    /\ sent = [p \in Procs |-> <<>>]
    /\ err = [p \in Procs |-> NoError]
    /\ written = [p \in Procs |-> {}]
    /\ round = [p \in Procs |-> 0]
    /\ snapshot = [p \in Procs |-> EmptyStore]
    /\ locals = [p \in Procs |-> NoLocals]
    /\ InitResolveOff /\ InitBuildOff /\ InitExtractOff /\ InitLogOff

PubNext == \E p \in Procs : Start(p) \/ UploadOne(p) \/ UploadFail(p)

SpecPub == InitPub /\ [][PubNext]_vars

(***************************************************************************)
(* Two publications at once against the same bucket, with distinct         *)
(* execution contexts                                                      *)
(***************************************************************************)
ConcContexts ==
    {Context(d, "r1", ti) : d \in {"d1", "d2"},
                            ti \in {t \in TaskInstances("t1") : t.try_number.val > 0}}

\* (dag_id, run_id, task_id, attempt_number)
Identity(ctx) ==
    <<ctx.dag_id, ctx.run_id, ctx.task_instance.task_id,
      IF ctx.task_instance.try_number.val # 0 THEN ctx.task_instance.try_number.val
      ELSE ctx.task_instance._try_number.val>>

ConcSettings == [remote_target_path |-> Some(<<"s3", ":", SEP, SEP, "bucket">>),
                 remote_target_path_conn_id |-> None, AIRFLOW_IO_AVAILABLE |-> TRUE]

InitConc ==
    /\ \E v1, v2 \in Variants, pd \in ProjectDirs, c1, c2 \in ConcContexts,
          o \in Perms(FilesOf(TreeExample)) :
         /\ Identity(c1) # Identity(c2)
         /\ pub = [p \in Procs |->
                     IF p = 1
                     THEN Args(v1, <<SEP, "p">>, <<"target">>, c1,
                               [tree |-> TreeExample, order |-> o], 1)
                     ELSE Args(v2, pd, <<"target">>, c2,
                               [tree |-> TreeExample, order |-> o], 1)]
    /\ settings = ConcSettings
    /\ remote_dirs = {}
    /\ store = EmptyStore
    /\ store0 = store
    /\ pc = [p \in Procs |-> "idle"]
    /\ todo = [p \in Procs |-> <<>>]
    /\ sent = [p \in Procs |-> <<>>]
    /\ err = [p \in Procs |-> NoError]
    /\ written = [p \in Procs |-> {}]
    /\ round = [p \in Procs |-> 0]
    /\ snapshot = [p \in Procs |-> EmptyStore]
    /\ locals = [p \in Procs |-> NoLocals]
    /\ InitResolveOff /\ InitBuildOff /\ InitExtractOff /\ InitLogOff

SpecConc == InitConc /\ [][PubNext]_vars

(***************************************************************************)
(* _extract_show_list                                                      *)
(*                                                                         *)
(* A log text is a sequence of tokens: the key "show" with its quotes, a   *)
(* white space character, the punctuation of JSON, a digit, or any other   *)
(* character.                                                              *)
(***************************************************************************)
SHOW == "\"show\""
WS == " "
COLON == ":"
LB == "["
RB == "]"
COMMA == ","
Digits == {"1", "2", "3"}

ExtractionError == [type |-> "ValueError", msg |-> "Could not find 'show' JSON array in string."]
MalformedPayload == [type |-> "ValueError", msg |-> "JSON decoding failed"]

RECURSIVE SkipWs(_, _)
\* \s* from position i: the first position at or after i that holds no white space
SkipWs(s, i) == IF i <= Len(s) /\ s[i] = WS THEN SkipWs(s, i + 1) ELSE i

RECURSIVE LastClose(_, _)
\* the last "]" at or after position i; 0 when there is none
LastClose(s, i) ==
    IF i > Len(s) THEN 0
    ELSE LET later == LastClose(s, i + 1)
         IN  IF later # 0 THEN later ELSE IF s[i] = RB THEN i ELSE 0

RECURSIVE FirstClose(_, _)
\* [^\]]*\] from position i: the first "]" at or after i; 0 when there is none
FirstClose(s, i) ==
    IF i > Len(s) THEN 0 ELSE IF s[i] = RB THEN i ELSE FirstClose(s, i + 1)

\* the pattern "show"\s*:\s*(\[[^\]]*\]) tried at position i
MatchAt(s, i) ==
    LET j == SkipWs(s, i + 1)
        k == SkipWs(s, j + 1)
        r == FirstClose(s, k + 1)
    IN  IF /\ s[i] = SHOW
           /\ j <= Len(s) /\ s[j] = COLON
           /\ k <= Len(s) /\ s[k] = LB
           /\ r # 0
        THEN [ok |-> TRUE, group |-> SubSeq(s, k, r)]
        ELSE [ok |-> FALSE, group |-> <<>>]

RECURSIVE SearchFrom(_, _)
\* re.search: the match at the leftmost position that has one
SearchFrom(s, i) ==
    IF i > Len(s) THEN [ok |-> FALSE, group |-> <<>>]
    ELSE IF MatchAt(s, i).ok THEN MatchAt(s, i) ELSE SearchFrom(s, i + 1)

\* JSON values
Num(n) == [t |-> "num", n |-> n, s |-> ""]
Str(x) == [t |-> "str", n |-> 0, s |-> x]
DigitValue(d) == IF d = "1" THEN 1 ELSE IF d = "2" THEN 2 ELSE 3

RECURSIVE ScanNumber(_, _)
\* the digits at the head of t, read as a number after the digits read into n
ScanNumber(t, n) ==
    IF Len(t) > 0 /\ Head(t) \in Digits
    THEN ScanNumber(Tail(t), 10 * n + DigitValue(Head(t)))
    ELSE [n |-> n, rest |-> t]

RECURSIVE ParseElements(_, _, _)
\* the elements of a JSON array after its "[": st is "first" before the first
\* element, "value" after a comma, "after" after an element
ParseElements(t, acc, st) ==
    IF Len(t) = 0 THEN [ok |-> FALSE, value |-> <<>>, rest |-> t]
    ELSE IF Head(t) = WS THEN ParseElements(Tail(t), acc, st)
    ELSE IF Head(t) = RB
         THEN [ok |-> st # "value", value |-> acc, rest |-> Tail(t)]
    ELSE IF st = "after"
         THEN IF Head(t) = COMMA THEN ParseElements(Tail(t), acc, "value")
              ELSE [ok |-> FALSE, value |-> <<>>, rest |-> t]
    ELSE IF Head(t) \in Digits
         THEN LET m == ScanNumber(t, 0)
              IN  ParseElements(m.rest, Append(acc, Num(m.n)), "after")
    ELSE IF Head(t) = SHOW
         THEN ParseElements(Tail(t), Append(acc, Str("show")), "after")
    ELSE [ok |-> FALSE, value |-> <<>>, rest |-> t]

\* json.loads of the text {"show": <array>}: the array, or a JSONDecodeError
JsonLoads(json_str) ==
    LET n == Len(json_str)
        a == SkipWs(json_str, 4)
    IN  IF /\ n >= 5 /\ json_str[1] = "{" /\ json_str[2] = SHOW /\ json_str[3] = COLON
           /\ a <= n /\ json_str[a] = LB
        THEN LET e == ParseElements(SubSeq(json_str, a + 1, n), <<>>, "first")
             IN  IF e.ok /\ e.rest = <<"}">>
                 THEN [ok |-> TRUE, show |-> e.value]
                 ELSE [ok |-> FALSE, show |-> <<>>]
        ELSE [ok |-> FALSE, show |-> <<>>]

ExtractShowList(text) ==
    LET match == SearchFrom(text, 1)
    IN  IF ~match.ok THEN [raise |-> ExtractionError, value |-> <<>>]
        ELSE LET json_array_str == match.group
                 json_str == <<"{", SHOW, COLON, WS>> \o json_array_str \o <<"}">>
                 data == JsonLoads(json_str)
             IN  IF ~data.ok THEN [raise |-> MalformedPayload, value |-> <<>>]
                 ELSE [raise |-> NoError, value |-> data.show]

\* log texts: every text of at most MaxTextLen tokens, and some longer ones
Alphabet == {SHOW, WS, COLON, LB, RB, COMMA, "1"}
ShortTexts == UNION {[1..n -> Alphabet] : n \in 0..MaxTextLen}
ExampleText == <<"x", SHOW, COLON, WS, LB, "1", COMMA, "2", COMMA, "3", RB, "x">>
LongTexts ==
    { ExampleText,
      <<"n", "o", WS, "s", "h", "o", "w", WS, "k", "e", "y">>,
      <<SHOW, COLON, WS, LB, "1", COMMA, "2", COMMA>>,
      <<SHOW, WS, LB, "1", RB, SHOW, WS, COLON, WS, LB, "2", "1", WS, COMMA, SHOW, RB, WS,
        SHOW, COLON, LB, "3", RB>>,
      <<SHOW, COLON, LB, LB, "1", RB, RB>>,
      <<SHOW, COLON, LB, "1", WS, "2", RB>>,
      <<SHOW, COLON, LB, "x", RB, SHOW, COLON, LB, "1", RB>> }
Texts == ShortTexts \cup LongTexts

InitExtract ==
    /\ log_string \in Texts
    /\ extracted = [called |-> FALSE]
    /\ InitRemoteOff /\ InitResolveOff /\ InitBuildOff /\ InitPubOff /\ InitLogOff

Extract ==
    /\ ~extracted.called
    /\ LET r == ExtractShowList(log_string)
       IN  extracted' = [called |-> TRUE, raise |-> r.raise, value |-> r.value]
    /\ UNCHANGED <<log_string, remoteVars, resolveVars, buildVars, pubVars, logVars>>

SpecExtract == InitExtract /\ [][Extract]_vars

(***************************************************************************)
(* log_to_xcom                                                             *)
(***************************************************************************)
\* f"Log file not found: {log_path}"
NotFoundText(log_path) == <<"Log file not found", COLON, WS>> \o log_path

\* f"Error reading log file {log_path}: {str(error)}"
ReadErrorText(log_path) ==
    <<"Error reading log file", WS>> \o log_path \o <<COLON, WS, "Permission denied">>

\* the text log_to_xcom takes for the log
LogContent(file, log_path) ==
    IF file.state = "present" THEN file.text
    ELSE IF file.state = "unreadable" THEN ReadErrorText(log_path)
    ELSE NotFoundText(log_path)

LogArgs ==
    { [project_dir |-> <<SEP, "p">>, log_relative_path |-> <<"logs", SEP, "dbt.log">>,
       xcom_key |-> "dbt_logs"],
      [project_dir |-> <<SEP, "tmp", SEP, "p">>, log_relative_path |-> <<"dbt.log">>,
       xcom_key |-> "show_rows"] }

LogFiles == {[state |-> "missing", text |-> <<>>], [state |-> "unreadable", text |-> <<>>]}
            \cup {[state |-> "present", text |-> t] : t \in Texts}

InitLog ==
    /\ log_args \in LogArgs
    /\ log_file \in LogFiles
    /\ xcom = <<>>
    /\ log_pc = "idle"
    /\ log_err = NoError
    /\ log_content = <<>>
    /\ InitRemoteOff /\ InitResolveOff /\ InitBuildOff /\ InitPubOff /\ InitExtractOff

\* as LogToXcom, but the value is pushed before the extraction is known to
\* have succeeded
LogToXcomPushFirst ==
    /\ log_pc = "idle"
    /\ LET log_path == PathJoin(log_args.project_dir, log_args.log_relative_path)
           content == LogContent(log_file, log_path)
           r == ExtractShowList(content)
       IN  /\ log_content' = content
           /\ xcom' = Append(xcom, [key |-> log_args.xcom_key, value |-> r.value])
           /\ log_pc' = IF r.raise # NoError THEN "failed" ELSE "done"
           /\ log_err' = r.raise
    /\ UNCHANGED <<log_args, log_file, remoteVars, resolveVars, buildVars, pubVars,
                   extractVars>>

LogToXcom ==
    /\ log_pc = "idle"
    /\ LET log_path == PathJoin(log_args.project_dir, log_args.log_relative_path)
           content == LogContent(log_file, log_path)
           json_content == ExtractShowList(content)
       IN  /\ log_content' = content
           /\ IF json_content.raise # NoError
              THEN /\ log_pc' = "failed"
                   /\ log_err' = json_content.raise
                   /\ xcom' = xcom
              ELSE /\ log_pc' = "done"
                   /\ log_err' = NoError
                   /\ xcom' = Append(xcom, [key |-> log_args.xcom_key,
                                            value |-> json_content.value])
    /\ UNCHANGED <<log_args, log_file, remoteVars, resolveVars, buildVars, pubVars,
                   extractVars>>

SpecLog == InitLog /\ [][LogToXcom]_vars

(***************************************************************************)
(* Properties: destination keys                                            *)
(***************************************************************************)
\* the prefix that scopes the keys of one attempt: root/dag_id/run_id/task_id/n/
AttemptPrefix(root, ctx) ==
    rstrip(root) \o <<SEP, ctx.dag_id, SEP, ctx.run_id, SEP, ctx.task_instance.task_id,
                      SEP, FmtInt(ctx.task_instance.try_number.val), SEP>>

SameTaskOtherAttempt(c1, c2) ==
    /\ c1.dag_id = c2.dag_id
    /\ c1.run_id = c2.run_id
    /\ c1.task_instance.task_id = c2.task_instance.task_id
    /\ c1.task_instance.try_number.val # c2.task_instance.try_number.val

\* C2: two contexts with the same dag, run and task but distinct attempt numbers
\* give keys under disjoint prefixes: each key lies under its own attempt's
\* prefix, not under the other's, and the two keys differ, whatever the root,
\* the sub-paths and the relative file paths are.
C2_DistinctAttemptsDisjoint ==
    (build_out.called /\ SameTaskOtherAttempt(build_in.ctx1, build_in.ctx2)) =>
        /\ build_out.key1 # build_out.key2
        /\ IsPrefix(AttemptPrefix(build_in.root, build_in.ctx1), build_out.key1)
        /\ IsPrefix(AttemptPrefix(build_in.root, build_in.ctx2), build_out.key2)
        /\ ~IsPrefix(AttemptPrefix(build_in.root, build_in.ctx1), build_out.key2)
        /\ ~IsPrefix(AttemptPrefix(build_in.root, build_in.ctx2), build_out.key1)

C2_Witness ==
    /\ build_out.called
    /\ SameTaskOtherAttempt(build_in.ctx1, build_in.ctx2)
    /\ build_in.rel1 = build_in.rel2
    /\ build_in.sub1 = build_in.sub2
    /\ build_in.root[Len(build_in.root)] = SEP

(***************************************************************************)
(* Properties: resolution                                                  *)
(***************************************************************************)
HasRoot(cfg) == cfg.remote_target_path.some /\ Len(cfg.remote_target_path.v) > 0
HasExplicitConn(cfg) ==
    cfg.remote_target_path_conn_id.some /\ Len(cfg.remote_target_path_conn_id.v) > 0
KnownScheme(cfg) == urlparse_scheme(cfg.remote_target_path.v) \in DOMAIN SchemeTable

\* the connection id the claim names: the explicit one, else the table's
ClaimedConn(cfg) ==
    IF HasExplicitConn(cfg) THEN cfg.remote_target_path_conn_id.v
    ELSE SchemeTable[urlparse_scheme(cfg.remote_target_path.v)]

\* resolution ends in (absent, absent)
NoTarget(cfg) == ~HasRoot(cfg) \/ (~HasExplicitConn(cfg) /\ ~KnownScheme(cfg))

\* C7: the outcome of _configure_remote_target_path is this function of the
\* configured root, the explicit connection id, the scheme table and the
\* capability flag: no root, or no explicit id and an unknown scheme, gives
\* (None, None) without raising and without creating a directory; otherwise
\* the connection id is the explicit one, else the table's entry for the
\* root's scheme, and the call raises CapabilityUnavailable when the
\* capability is missing and else returns (root, connection id), the root
\* directory existing afterwards.
C7_ResolveOutcome ==
    resolved.called =>
        IF NoTarget(settings)
        THEN /\ resolved.raise = NoError
             /\ resolved.path = None /\ resolved.conn_id = None
             /\ remote_dirs = resolved.dirs_before
        ELSE IF ~settings.AIRFLOW_IO_AVAILABLE
        THEN /\ resolved.raise = CapabilityUnavailable
             /\ remote_dirs = resolved.dirs_before
        ELSE /\ resolved.raise = NoError
             /\ resolved.path.some /\ resolved.conn_id.some
             /\ resolved.path.v.path = settings.remote_target_path.v
             /\ resolved.path.v.conn_id = ClaimedConn(settings)
             /\ resolved.conn_id.v = ClaimedConn(settings)
             /\ remote_dirs = resolved.dirs_before \cup {settings.remote_target_path.v}

C7_Witness ==
    /\ resolved.called
    /\ HasRoot(settings) /\ ~HasExplicitConn(settings) /\ KnownScheme(settings)
    /\ settings.remote_target_path.v[1] = "S3"
    /\ resolved.conn_id = Some(<<"aws_default">>)
    /\ remote_dirs # resolved.dirs_before

(***************************************************************************)
(* Properties: publication                                                 *)
(***************************************************************************)
\* root/dag_id/run_id/task_id/attempt_number/source_subpath/rel(f)
MappedKey(cfg, a, f) ==
    rstrip(cfg.remote_target_path.v)
        \o <<SEP, a.context.dag_id, SEP, a.context.run_id, SEP,
             a.context.task_instance.task_id, SEP,
             FmtInt(a.context.task_instance.try_number.val), SEP>>
        \o a.source_subpath \o Slash \o JoinSegs(f.rel)

\* the end-to-end scenario: run/results.json and compiled/q.sql below target,
\* context (d1, r1, t1, 2), root store://bucket
IsScenario(cfg, a) ==
    /\ cfg.remote_target_path = Some(<<"store", ":", SEP, SEP, "bucket">>)
    /\ a.context.dag_id = "d1" /\ a.context.run_id = "r1"
    /\ a.context.task_instance.task_id = "t1"
    /\ a.context.task_instance.try_number.val = 2
    /\ a.source_subpath = <<"target">>
    /\ a.tree = TreeExample

ScenarioKeys ==
    { <<"store", ":", SEP, SEP, "bucket", SEP, "d1", SEP, "r1", SEP, "t1", SEP, "2", SEP,
        "target", SEP, "run", SEP, "results.json">>,
      <<"store", ":", SEP, SEP, "bucket", SEP, "d1", SEP, "r1", SEP, "t1", SEP, "2", SEP,
        "target", SEP, "compiled", SEP, "q.sql">> }

\* C1: when upload_to_cloud_storage has returned, the objects it wrote are
\* exactly the regular files below project_dir/source_subpath mapped through
\* root/dag_id/run_id/task_id/attempt_number/source_subpath/rel(f), each holding
\* its file's content, in whatever order the files were listed; in the
\* end-to-end scenario these are the two keys the specification names.
C1_GenericObjectSet ==
    \A p \in Procs :
        (pub[p].variant = "generic" /\ pc[p] = "done") =>
            /\ written[p] = {MappedKey(settings, pub[p], f) : f \in FilesOf(pub[p].tree)}
            /\ \A f \in FilesOf(pub[p].tree) :
                 /\ MappedKey(settings, pub[p], f) \in DOMAIN store
                 /\ store[MappedKey(settings, pub[p], f)] = f.content
            /\ IsScenario(settings, pub[p]) => written[p] = ScenarioKeys

C1_Witness ==
    /\ pub[1].variant = "generic" /\ pc[1] = "done"
    /\ IsScenario(settings, pub[1])
    /\ pub[1].order[1].rel = <<"compiled", "q.sql">>
    /\ written[1] = ScenarioKeys

\* C3: no remote object is written by two different publications that run
\* at once with distinct execution contexts.
C3_NoSharedKey ==
    \A p, q \in Procs : p # q => written[p] \cap written[q] = {}

\* C4: a publication of the same tree with the same context that follows a
\* finished one leaves the store exactly as the first left it: same keys, same
\* contents.
C4_Idempotent ==
    \A p \in Procs : (pc[p] = "done" /\ round[p] >= 2) => store = snapshot[p]

C4_Witness ==
    /\ pc[1] = "done" /\ round[1] = 2
    /\ Len(sent[1]) = 2
    /\ store0 # EmptyStore
    /\ DOMAIN store0 # DOMAIN store
    /\ store = snapshot[1]

\* C5: upload_to_cloud_storage, once called with no root configured, or with a
\* root, no explicit connection id and a scheme the table lacks, has raised
\* NotConfigured, has listed and uploaded nothing, and has left the store and
\* the remote directories as they were.
C5_NotConfigured ==
    \A p \in Procs :
        (pub[p].variant = "generic" /\ round[p] >= 1 /\ NoTarget(settings)) =>
            /\ pc[p] = "failed" /\ err[p] = NotConfigured
            /\ todo[p] = <<>> /\ sent[p] = <<>> /\ written[p] = {}
            /\ store = store0 /\ remote_dirs = {}

C5_Witness ==
    /\ pub[1].variant = "generic" /\ round[1] = 1
    /\ HasRoot(settings) /\ ~HasExplicitConn(settings) /\ ~KnownScheme(settings)
    /\ FilesOf(pub[1].tree) # {}
    /\ err[1] = NotConfigured

\* the content the store holds for a file already sent: that of the last file
\* sent to the same object
LastSentTo(p, uri) ==
    LET at == {i \in DOMAIN sent[p] : DestOf(pub[p], locals[p], sent[p][i]).uri = uri}
        i == CHOOSE j \in at : \A k \in at : k <= j
    IN  sent[p][i].content

\* the store as the current publication of p found it
RoundStart(p) == IF round[p] = 1 THEN store0 ELSE snapshot[p]

\* C6: when an upload fails in the middle of a publication, the callback has
\* stopped at that file with the backend's own exception: the files listed
\* before it are in the store with their contents, the failing file and those
\* after it were not uploaded, and every other object is as the publication
\* found it.
C6_AbortAtFailure ==
    \A p \in Procs :
        (/\ pc[p] = "failed" /\ todo[p] # <<>>
         /\ DestOf(pub[p], locals[p], Head(todo[p])).raise = NoError) =>
            /\ err[p] = BackendError
            /\ sent[p] \o todo[p] = pub[p].order
            /\ written[p] = {DestOf(pub[p], locals[p], sent[p][i]).uri : i \in DOMAIN sent[p]}
            /\ \A u \in written[p] : u \in DOMAIN store /\ store[u] = LastSentTo(p, u)
            /\ \A u \in DOMAIN store \ written[p] :
                 u \in DOMAIN RoundStart(p) /\ store[u] = RoundStart(p)[u]
            /\ DOMAIN RoundStart(p) \subseteq DOMAIN store

C6_Witness ==
    /\ pc[1] = "failed" /\ err[1] = BackendError
    /\ Len(sent[1]) = 1 /\ Len(todo[1]) = 1
    /\ written[1] # {} /\ written[1] \subseteq DOMAIN store
    /\ pub[1].variant \in {"s3", "azure"}

\* the counter the claim names: the primary one when it is available
ClaimedAttempt(ti) ==
    IF ti.try_number.has /\ ti.try_number.val # 0 THEN ti.try_number.val
    ELSE ti._try_number.val

\* the attempt segment of a named backend's object:
\* scheme://bucket/dag_id/run_id/task_id/n/...
AttemptSegment(uri) == uri[13]

\* C10: the S3 and Azure publishers put the primary attempt counter in the key
\* when it is available and the private one otherwise, and never fail for the
\* want of one of the two attributes.
C10_AttemptCounter ==
    \A p \in Procs :
        pub[p].variant \in {"s3", "azure"} =>
            /\ err[p] # AttributeError
            /\ \A u \in written[p] :
                 AttemptSegment(u) = FmtInt(ClaimedAttempt(pub[p].context.task_instance))

(***************************************************************************)
(* Properties: extraction                                                  *)
(***************************************************************************)
\* s holds the key "show" at i, then white space, a colon and white space up
\* to a "[" at k, and a "]" at r after it
Occurrence(s, i, k, r) ==
    /\ i < k /\ k < r
    /\ s[i] = SHOW /\ s[k] = LB /\ s[r] = RB
    /\ \E j \in (i + 1)..(k - 1) :
         /\ s[j] = COLON
         /\ \A m \in ((i + 1)..(k - 1)) \ {j} : s[m] = WS

Occurrences(s) ==
    {o \in (1..Len(s)) \X (1..Len(s)) \X (1..Len(s)) : Occurrence(s, o[1], o[2], o[3])}

\* the first occurrence, cut at the first "]" after its "["
FirstFragment(s) ==
    LET o == CHOOSE x \in Occurrences(s) :
                 \A y \in Occurrences(s) : x[1] <= y[1] /\ (x[1] = y[1] => x[3] <= y[3])
    IN  SubSeq(s, o[2], o[3])

Unws(t) == SelectSeq(t, LAMBDA x : x # WS)

\* what lies between the brackets of frag is a comma-separated list of numbers
\* and "show" strings, white space allowed around but not inside them
ValidArray(frag) ==
    LET inner == SubSeq(frag, 2, Len(frag) - 1)
        u == Unws(inner)
    IN  /\ \A a \in DOMAIN u : u[a] \in Digits \cup {SHOW, COMMA}
        /\ u # <<>> => u[1] # COMMA /\ u[Len(u)] # COMMA
        /\ \A a \in 1..(Len(u) - 1) :
             /\ ~(u[a] = COMMA /\ u[a + 1] = COMMA)
             /\ ~(u[a] = SHOW /\ u[a + 1] # COMMA)
             /\ ~(u[a] # COMMA /\ u[a + 1] = SHOW)
        /\ \A a, b \in DOMAIN inner :
             (/\ a + 1 < b /\ inner[a] \in Digits /\ inner[b] \in Digits
              /\ \A m \in (a + 1)..(b - 1) : inner[m] = WS) => FALSE

RECURSIVE RenderNumber(_)
RenderNumber(n) ==
    IF n < 10 THEN <<ToString(n)>> ELSE RenderNumber(n \div 10) \o <<ToString(n % 10)>>

RenderValue(v) == IF v.t = "num" THEN RenderNumber(v.n) ELSE <<"\"" \o v.s \o "\"">>

RECURSIVE Render(_)
\* the JSON text of the elements of an array, without white space
Render(vals) ==
    IF Len(vals) = 0 THEN <<>>
    ELSE IF Len(vals) = 1 THEN RenderValue(vals[1])
    ELSE RenderValue(vals[1]) \o <<COMMA>> \o Render(Tail(vals))

\* C9: _extract_show_list ends in one of three ways.  With no key "show"
\* followed by a bracketed array in the text it raises the not-found error.
\* Otherwise it takes the first occurrence, cut at the first "]" after its "[",
\* and returns the array that text denotes when it is valid JSON, and raises
\* the decoding error when it is not.  The two errors differ (in their
\* message).  A text holding "show": [1,2,3] gives [1, 2, 3].
C9_ExtractOutcomes ==
    extracted.called =>
        /\ IF Occurrences(log_string) = {}
           THEN extracted.raise = ExtractionError
           ELSE IF ValidArray(FirstFragment(log_string))
           THEN /\ extracted.raise = NoError
                /\ Render(extracted.value) =
                     Unws(SubSeq(FirstFragment(log_string), 2,
                                 Len(FirstFragment(log_string)) - 1))
           ELSE extracted.raise = MalformedPayload
        /\ extracted.raise \in {NoError, ExtractionError, MalformedPayload}
        /\ extracted.raise # NoError => extracted.value = <<>>
        /\ ExtractionError # MalformedPayload
        /\ log_string = ExampleText =>
             extracted.raise = NoError /\ extracted.value = <<Num(1), Num(2), Num(3)>>

C9_Witness ==
    /\ extracted.called
    /\ Cardinality({o[1] : o \in Occurrences(log_string)}) = 2
    /\ Cardinality({o[3] : o \in Occurrences(log_string)}) = 2
    /\ extracted.raise = NoError
    /\ extracted.value = <<Num(21), Str("show")>>

(***************************************************************************)
(* Properties: log_to_xcom                                                 *)
(***************************************************************************)
ArrayFound(text) == Occurrences(text) # {} /\ ValidArray(FirstFragment(text))

\* C8: log_to_xcom does not fail for a missing log file as such: it takes the
\* not-found text for the log and extracts from it.  Whatever the log, the
\* value is pushed under xcom_key once, and only when the extraction
\* succeeded; when the extraction fails, as it does on the not-found text,
\* the extraction's own error leaves the callback and nothing is pushed.
C8_PublishLog ==
    log_pc # "idle" =>
        /\ log_file.state = "missing" =>
             /\ log_content = NotFoundText(PathJoin(log_args.project_dir,
                                                    log_args.log_relative_path))
             /\ log_pc = "failed" /\ log_err = ExtractionError /\ xcom = <<>>
        /\ IF ArrayFound(log_content)
           THEN /\ log_pc = "done" /\ log_err = NoError
                /\ Len(xcom) = 1
                /\ xcom[1].key = log_args.xcom_key
                /\ Render(xcom[1].value) =
                     Unws(SubSeq(FirstFragment(log_content), 2,
                                 Len(FirstFragment(log_content)) - 1))
           ELSE /\ log_pc = "failed"
                /\ xcom = <<>>
                /\ log_err = IF Occurrences(log_content) = {} THEN ExtractionError
                             ELSE MalformedPayload

C8_Witness ==
    /\ log_pc = "failed"
    /\ log_file.state = "missing"
    /\ log_err = ExtractionError
    /\ log_content = <<"Log file not found", COLON, WS, SEP, "p", SEP, "logs", SEP, "dbt.log">>
    /\ xcom = <<>>

====
